---------------------------- MODULE Spec2Model ----------------------------
(***************************************************************************)
(* Model of connector_twilio/commands/send_sms.py: the SendSMSCommand      *)
(* connector command (construction, phone-number validation, execute).     *)
(*                                                                         *)
(* A Python str is a sequence of one-character tokens.  "NL" stands for    *)
(* the newline character and "U0663" for ARABIC-INDIC DIGIT THREE, a       *)
(* non-ASCII character of Unicode category Nd.  A fixed fragment of an     *)
(* f-string is kept as one token of the sequence.                          *)
(***************************************************************************)
EXTENDS Integers, Sequences, FiniteSets, TLC

VARIABLES
    inst,       \* per command object: construction status and attributes
    last,       \* the most recent operation: its inputs and what it produced
    nExecute,   \* execute invocations so far
    nCreate,    \* client.messages.create calls issued so far
    vin,        \* validator harness: the input string
    vout,       \* validator harness: _validate_phone_number(vin)
    vout2,      \* validator harness: _validate_phone_number applied to vout's value
    vpc         \* validator harness: "start", "once", "twice"

vars == <<inst, last, nExecute, nCreate, vin, vout, vout2, vpc>>

-----------------------------------------------------------------------------
(* Characters and the character classes of the pattern (line 75).          *)

AsciiDigits == {"0", "1", "2", "3", "4", "5", "6", "7", "8", "9"}

\* Python 3 str patterns: \d is every Unicode decimal digit, not only 0-9.
UnicodeDigits == {"U0663"}

NonZeroAsciiDigits == AsciiDigits \ {"0"}

IsClassD(c) == c \in AsciiDigits \cup UnicodeDigits

\* {1,14} of the pattern.
MinRep == 1
MaxRep == 14

\* `$`: at the end of the string, or just before a newline that ends it.
DollarAt(s, q) == q = Len(s) + 1 \/ (q = Len(s) /\ s[q] = "NL")

\* Greedy \d{1,14} from position p: the number of characters it takes first.
RECURSIVE GreedyRun(_, _, _)
GreedyRun(s, p, taken) ==
    IF taken < MaxRep /\ p + taken <= Len(s) /\ IsClassD(s[p + taken])
    THEN GreedyRun(s, p, taken + 1)
    ELSE taken

\* Backtracking: give characters back, down to MinRep, until `$` matches.
RECURSIVE BacktrackDollar(_, _, _)
BacktrackDollar(s, p, k) ==
    IF k < MinRep THEN FALSE
    ELSE IF DollarAt(s, p + k) THEN TRUE
    ELSE BacktrackDollar(s, p, k - 1)

\* [1-9]\d{1,14}$ from position p.
MatchFrom(s, p) ==
    /\ p <= Len(s)
    /\ s[p] \in NonZeroAsciiDigits
    /\ BacktrackDollar(s, p + 1, GreedyRun(s, p + 1, 0))

\* re.match(r'^\+?[1-9]\d{1,14}$', s): \+? takes the '+' first and, on
\* failure, is retried taking nothing.
ReMatch(s) ==
    \/ (Len(s) >= 1 /\ s[1] = "+" /\ MatchFrom(s, 2))
    \/ MatchFrom(s, 1)

StartsWithPlus(s) == Len(s) >= 1 /\ s[1] = "+"

-----------------------------------------------------------------------------
(* Exceptions: the class name, the classes an except clause matches it by,  *)
(* str(e), and for a TwilioRestException its code and msg attributes.       *)

Exc(type, bases, text) ==
    [type |-> type, bases |-> bases \cup {type}, str |-> text]

\* twilio.base.exceptions.TwilioRestException, as the handlers read it.
RestExc(code, msg, text) ==
    [type |-> "TwilioRestException",
     bases |-> {"TwilioRestException", "TwilioException", "Exception"},
     str |-> text, code |-> code, msg |-> msg]

NoExc == [type |-> "None", bases |-> {}, str |-> <<>>]

InvalidFormatText(phone_number) ==
    <<"Invalid phone number format: ">> \o phone_number
        \o <<". Expected E.164 format (e.g., +1234567890)">>

\* A mutant of _validate_phone_number: the '+' is prefixed unconditionally.
ValidateAlwaysPrefix(phone_number) ==
    IF ~ReMatch(phone_number)
    THEN [ok |-> FALSE, value |-> <<>>,
          exc |-> Exc("ValueError", {"Exception"}, InvalidFormatText(phone_number))]
    ELSE [ok |-> TRUE, value |-> <<"+">> \o phone_number, exc |-> NoExc]

\* A mutant of _validate_phone_number: the format check is skipped.
ValidateNoCheck(phone_number) ==
    [ok |-> TRUE,
     value |-> IF StartsWithPlus(phone_number) THEN phone_number
               ELSE <<"+">> \o phone_number,
     exc |-> NoExc]

\* SendSMSCommand._validate_phone_number: raises ValueError or returns the
\* number with a leading '+'.
_validate_phone_number(phone_number) ==
    IF ~ReMatch(phone_number)
    THEN [ok |-> FALSE, value |-> <<>>,
          exc |-> Exc("ValueError", {"Exception"}, InvalidFormatText(phone_number))]
    ELSE [ok |-> TRUE,
          value |-> IF StartsWithPlus(phone_number) THEN phone_number
                    ELSE <<"+">> \o phone_number,
          exc |-> NoExc]


-----------------------------------------------------------------------------
(* Argument values: a plain str, an int, a bool, or a configuration object  *)
(* described by what each probed attribute holds and by what str() of the   *)
(* object does.                                                             *)

AttrNames == <<"value", "_value", "data", "_data", "get_value">>

StrVal(s) == [k |-> "str", s |-> s]
IntVal(n) == [k |-> "int", n |-> n]
BoolVal(b) == [k |-> "bool", b |-> b]
ObjVal(attrs, repr) == [k |-> "obj", attrs |-> attrs, repr |-> repr]

Absent == [a |-> "absent", s |-> <<>>]
AttrStr(s) == [a |-> "str", s |-> s]                 \* a str attribute
AttrCallStr(s) == [a |-> "call_str", s |-> s]        \* a callable returning a str
AttrCallOther == [a |-> "call_other", s |-> <<>>]    \* a callable returning a non-str
AttrCallRaise == [a |-> "call_raise", s |-> <<>>]    \* a callable raising an Exception
AttrOther == [a |-> "other", s |-> <<>>]             \* neither str nor callable
AttrHasRaise == [a |-> "has_raise", s |-> <<>>]      \* a property raising RuntimeError

ReprOk(s) == [r |-> "ok", s |-> s]
ReprRaise == [r |-> "raise", s |-> <<>>]             \* __str__ raises TypeError

NoAttrs == [n \in {AttrNames[i] : i \in 1..Len(AttrNames)} |-> Absent]

Returned(s) == [ok |-> TRUE, value |-> s, exc |-> NoExc]
Raised(e) == [ok |-> FALSE, value |-> <<>>, exc |-> e]

DigitChar(d) == <<"0", "1", "2", "3", "4", "5", "6", "7", "8", "9">>[d + 1]

\* str(n) of a non-negative int.
RECURSIVE PyStrNat(_)
PyStrNat(n) == IF n < 10 THEN <<DigitChar(n)>>
               ELSE PyStrNat(n \div 10) \o <<DigitChar(n % 10)>>

\* str(n) of an int.
PyStrInt(n) == IF n < 0 THEN <<"-">> \o PyStrNat(-n) ELSE PyStrNat(n)

PyStrBool(b) == IF b THEN <<"T", "r", "u", "e">> ELSE <<"F", "a", "l", "s", "e">>

\* The last resort of _extract_value: str(value).
LastResort(value) ==
    IF value.repr.r = "ok" THEN Returned(value.repr.s)
    ELSE Raised(Exc("TypeError", {"Exception"}, <<"__str__ returned non-string">>))

\* The attribute loop of _extract_value from the i-th name on.
RECURSIVE ProbeAttrs(_, _)
ProbeAttrs(value, i) ==
    IF i > Len(AttrNames) THEN LastResort(value)
    ELSE LET spec == value.attrs[AttrNames[i]] IN
         CASE spec.a = "has_raise" ->
                  Raised(Exc("RuntimeError", {"Exception"}, <<"property failed">>))
           [] spec.a \in {"str", "call_str"} -> Returned(spec.s)
           [] OTHER -> ProbeAttrs(value, i + 1)

\* _extract_value(value).
_extract_value(value) ==
    CASE value.k = "str" -> Returned(value.s)
      [] value.k = "int" -> Returned(PyStrInt(value.n))
      [] value.k = "bool" -> Returned(PyStrBool(value.b))
      [] OTHER -> ProbeAttrs(value, 1)

-----------------------------------------------------------------------------
(* The provider (twilio.rest.Client), an external collaborator: what the    *)
(* client construction plus account fetch, and messages.create, answer.     *)

AuthOk == [k |-> "ok", exc |-> NoExc]
\* Client(...) itself raises (a TwilioException, not a TwilioRestException).
AuthClientRaise(e) == [k |-> "client_raise", exc |-> e]
\* accounts(sid).fetch() raises a TwilioRestException.
AuthRest(e) == [k |-> "rest", exc |-> e]
\* accounts(sid).fetch() raises something else.
AuthRaise(e) == [k |-> "raise", exc |-> e]

SendOk(sid, status) == [k |-> "ok", sid |-> sid, status |-> status, exc |-> NoExc]
SendRaise(e) == [k |-> "raise", sid |-> "", status |-> "", exc |-> e]

ClientCall(sid) == [op |-> "Client", sid |-> sid]
FetchCall(sid) == [op |-> "fetch", sid |-> sid]

NoObject(status, e, calls) ==
    [status |-> status, account_sid |-> <<>>, auth_token |-> <<>>,
     from_phone_number |-> <<>>, exc |-> e, calls |-> calls]

\* Lines 51-58 of __init__, given the attributes already set.
InitClient(sid, token, from, authResp) ==
    CASE authResp.k = "client_raise" ->
             NoObject("raised", authResp.exc, <<ClientCall(sid)>>)
      [] authResp.k = "rest" ->
             NoObject("raised",
                      Exc("ValueError", {"Exception"},
                          <<"Invalid Twilio credentials: ">> \o authResp.exc.str),
                      <<ClientCall(sid), FetchCall(sid)>>)
      [] authResp.k = "raise" ->
             NoObject("raised", authResp.exc, <<ClientCall(sid), FetchCall(sid)>>)
      [] OTHER ->
             [status |-> "constructed", account_sid |-> sid, auth_token |-> token,
              from_phone_number |-> from, exc |-> NoExc,
              calls |-> <<ClientCall(sid), FetchCall(sid)>>]

\* A mutant of __init__: the client is created and the account fetched before
\* the sender number is validated.
InitValidateLate(account_sid, auth_token, from_phone_number, authResp) ==
    LET sid == _extract_value(account_sid)
        token == _extract_value(auth_token)
        from == _extract_value(from_phone_number)
    IN  IF ~sid.ok THEN NoObject("raised", sid.exc, <<>>)
        ELSE IF ~token.ok THEN NoObject("raised", token.exc, <<>>)
        ELSE IF ~from.ok THEN NoObject("raised", from.exc, <<>>)
        ELSE LET c == InitClient(sid.value, token.value, from.value, authResp)
                 validated == _validate_phone_number(from.value)
             IN  IF c.status = "raised" THEN c
                 ELSE IF ~validated.ok THEN NoObject("raised", validated.exc, c.calls)
                 ELSE [c EXCEPT !.from_phone_number = validated.value]

\* A mutant of __init__: the TwilioRestException of the fetch is logged and
\* not re-raised.
InitSwallowRest(account_sid, auth_token, from_phone_number, authResp) ==
    LET sid == _extract_value(account_sid)
        token == _extract_value(auth_token)
        from == _extract_value(from_phone_number)
    IN  IF ~sid.ok THEN NoObject("raised", sid.exc, <<>>)
        ELSE IF ~token.ok THEN NoObject("raised", token.exc, <<>>)
        ELSE IF ~from.ok THEN NoObject("raised", from.exc, <<>>)
        ELSE LET validated == _validate_phone_number(from.value) IN
             IF ~validated.ok THEN NoObject("raised", validated.exc, <<>>)
             ELSE InitClient(sid.value, token.value, validated.value,
                             IF authResp.k = "rest" THEN AuthOk ELSE authResp)

\* SendSMSCommand.__init__: the object it leaves, or the exception it raises,
\* and the provider calls it issued.
__init__(account_sid, auth_token, from_phone_number, authResp) ==
    LET sid == _extract_value(account_sid)
        token == _extract_value(auth_token)
        from == _extract_value(from_phone_number)
    IN  IF ~sid.ok THEN NoObject("raised", sid.exc, <<>>)
        ELSE IF ~token.ok THEN NoObject("raised", token.exc, <<>>)
        ELSE IF ~from.ok THEN NoObject("raised", from.exc, <<>>)
        ELSE LET validated == _validate_phone_number(from.value) IN
             IF ~validated.ok THEN NoObject("raised", validated.exc, <<>>)
             ELSE InitClient(sid.value, token.value, validated.value, authResp)

-----------------------------------------------------------------------------
(* execute: the try body (lines 96-122) and the except clauses (123-156).   *)

CreateCall(body, from, to) == [op |-> "create", body |-> body, from |-> from, to |-> to]

Mimetype == "application/json"

SuccessResult(message, validated_to, from, now) ==
    [response |-> [message_sid |-> message.sid,
                   to |-> validated_to,
                   from |-> from,
                   status_code |-> message.status,
                   timestamp |-> now,
                   details |-> <<"Message sent to ">> \o validated_to],
     status |-> 200,
     mimetype |-> Mimetype]

TryRaised(e, origin, calls) ==
    [exc |-> e, origin |-> origin, calls |-> calls, result |-> <<>>]

TryReturned(result, calls) ==
    [exc |-> NoExc, origin |-> "none", calls |-> calls, result |-> result]

\* A mutant of TryBody: messages.create is called before the recipient is
\* validated.
TryBodySendFirst(self, to_phone_number, message_body, sendResp, now) ==
    LET to == _extract_value(to_phone_number)
        body == _extract_value(message_body)
    IN  IF ~to.ok THEN TryRaised(to.exc, "unwrap", <<>>)
        ELSE IF ~body.ok THEN TryRaised(body.exc, "unwrap", <<>>)
        ELSE LET call == CreateCall(body.value, self.from_phone_number, to.value)
                 validated == _validate_phone_number(to.value)
             IN  IF sendResp.k # "ok" THEN TryRaised(sendResp.exc, "send", <<call>>)
                 ELSE IF ~validated.ok
                      THEN TryRaised(validated.exc, "validate", <<call>>)
                 ELSE TryReturned(SuccessResult(sendResp, validated.value,
                                                self.from_phone_number, now),
                                  <<call>>)

\* A mutant of TryBody: a failed messages.create is issued once more.
TryBodyRetry(self, to_phone_number, message_body, sendResp, now) ==
    LET to == _extract_value(to_phone_number)
        body == _extract_value(message_body)
    IN  IF ~to.ok THEN TryRaised(to.exc, "unwrap", <<>>)
        ELSE IF ~body.ok THEN TryRaised(body.exc, "unwrap", <<>>)
        ELSE LET validated == _validate_phone_number(to.value) IN
             IF ~validated.ok THEN TryRaised(validated.exc, "validate", <<>>)
             ELSE LET call == CreateCall(body.value, self.from_phone_number,
                                         validated.value)
                  IN  IF sendResp.k # "ok"
                      THEN TryRaised(sendResp.exc, "send", <<call, call>>)
                      ELSE TryReturned(SuccessResult(sendResp, validated.value,
                                                     self.from_phone_number, now),
                                       <<call>>)

\* A mutant of TryBody: the response reports the recipient as it was given,
\* not as validated.
TryBodyRawTo(self, to_phone_number, message_body, sendResp, now) ==
    LET to == _extract_value(to_phone_number)
        body == _extract_value(message_body)
    IN  IF ~to.ok THEN TryRaised(to.exc, "unwrap", <<>>)
        ELSE IF ~body.ok THEN TryRaised(body.exc, "unwrap", <<>>)
        ELSE LET validated == _validate_phone_number(to.value) IN
             IF ~validated.ok THEN TryRaised(validated.exc, "validate", <<>>)
             ELSE LET call == CreateCall(body.value, self.from_phone_number,
                                         validated.value)
                  IN  IF sendResp.k # "ok"
                      THEN TryRaised(sendResp.exc, "send", <<call>>)
                      ELSE TryReturned(SuccessResult(sendResp, to.value,
                                                     self.from_phone_number, now),
                                       <<call>>)

\* Lines 96-122: unwrap, validate, send, build the success mapping; or the
\* exception that leaves the try body, where it arose and the calls issued.
TryBody(self, to_phone_number, message_body, sendResp, now) ==
    LET to == _extract_value(to_phone_number)
        body == _extract_value(message_body)
    IN  IF ~to.ok THEN TryRaised(to.exc, "unwrap", <<>>)
        ELSE IF ~body.ok THEN TryRaised(body.exc, "unwrap", <<>>)
        ELSE LET validated == _validate_phone_number(to.value) IN
             IF ~validated.ok THEN TryRaised(validated.exc, "validate", <<>>)
             ELSE LET call == CreateCall(body.value, self.from_phone_number,
                                         validated.value)
                  IN  IF sendResp.k # "ok"
                      THEN TryRaised(sendResp.exc, "send", <<call>>)
                      ELSE TryReturned(SuccessResult(sendResp, validated.value,
                                                     self.from_phone_number, now),
                                       <<call>>)

FailureResult(response, status) ==
    [response |-> response, status |-> status, mimetype |-> Mimetype]

Handled(result) == [returned |-> TRUE, result |-> result]
Propagated == [returned |-> FALSE, result |-> <<>>]

\* A mutant of HandleExc: the TwilioRestException clause reports str(e) and
\* drops the provider's code.
HandleExcNoCode(e, now) ==
    IF "TwilioRestException" \in e.bases
    THEN Handled(FailureResult([error_type |-> "TwilioRestException",
                                error_message |-> e.str,
                                timestamp |-> now], 400))
    ELSE IF "ValueError" \in e.bases
    THEN Handled(FailureResult([error_type |-> "ValueError",
                                error_message |-> e.str,
                                timestamp |-> now], 400))
    ELSE IF "Exception" \in e.bases
    THEN Handled(FailureResult([error_type |-> e.type,
                                error_message |-> e.str,
                                timestamp |-> now], 500))
    ELSE Propagated

\* Lines 123-156: the first except clause whose class the exception is an
\* instance of; none for an exception outside Exception.
HandleExc(e, now) ==
    IF "TwilioRestException" \in e.bases
    THEN Handled(FailureResult([error_type |-> "TwilioRestException",
                                error_code |-> e.code,
                                error_message |-> e.msg,
                                timestamp |-> now], 400))
    ELSE IF "ValueError" \in e.bases
    THEN Handled(FailureResult([error_type |-> "ValueError",
                                error_message |-> e.str,
                                timestamp |-> now], 400))
    ELSE IF "Exception" \in e.bases
    THEN Handled(FailureResult([error_type |-> e.type,
                                error_message |-> e.str,
                                timestamp |-> now], 500))
    ELSE Propagated

\* SendSMSCommand.execute: what the caller gets, the exception raised inside
\* the try (if any) and the messages.create calls issued.
execute(self, to_phone_number, message_body, sendResp, now) ==
    LET t == TryBody(self, to_phone_number, message_body, sendResp, now) IN
    IF t.exc.type = "None"
    THEN [returned |-> TRUE, result |-> t.result, raised |-> NoExc,
          origin |-> "none", calls |-> t.calls]
    ELSE LET h == HandleExc(t.exc, now) IN
         [returned |-> h.returned, result |-> h.result, raised |-> t.exc,
          origin |-> t.origin, calls |-> t.calls]

-----------------------------------------------------------------------------
(* Inputs.                                                                  *)

\* execute invocations explored.
MaxExecutes == 2
\* Longest run of fill characters after the first character of a generated
\* validator input (the pattern takes at most MaxRep of them).
MaxRun == 16

PlusFull == <<"+", "1", "5", "5", "5", "1", "2", "3", "4", "5", "6", "7">>
BareFull == <<"1", "5", "5", "5", "1", "2", "3", "4", "5", "6", "7">>
NotANumber == <<"n", "o", "t", "a", "n", "u", "m", "b", "e", "r">>
PlusFullNL == PlusFull \o <<"NL">>
PlusUnicode == <<"+", "1", "U0663">>
TooShort == <<"+", "1">>

WrapsValue(s) == ObjVal([NoAttrs EXCEPT !["value"] = AttrStr(s)], ReprOk(<<"<Config>">>))
WrapsGetter(s) ==
    ObjVal([NoAttrs EXCEPT !["value"] = AttrCallRaise, !["_value"] = AttrCallOther,
                           !["data"] = AttrOther, !["get_value"] = AttrCallStr(s)],
           ReprOk(<<"<Config>">>))
Opaque == ObjVal(NoAttrs, ReprOk(<<"<Config>">>))
BadStr == ObjVal(NoAttrs, ReprRaise)
BadProperty == ObjVal([NoAttrs EXCEPT !["data"] = AttrHasRaise], ReprOk(<<"<Config>">>))

Recipients ==
    {StrVal(PlusFull), StrVal(BareFull), StrVal(NotANumber), StrVal(PlusFullNL),
     StrVal(PlusUnicode), IntVal(155), WrapsGetter(BareFull), Opaque, BadStr}

Bodies == {StrVal(<<"hello">>), BoolVal(TRUE), BadStr}

Senders ==
    {StrVal(PlusFull), StrVal(BareFull), StrVal(NotANumber), StrVal(PlusFullNL),
     WrapsValue(TooShort)}

AccountSids == {StrVal(<<"AC1">>), BadProperty}
AuthTokens == {StrVal(<<"token">>), BadStr}

AuthResps ==
    {AuthOk,
     AuthClientRaise(Exc("TwilioException", {"Exception"},
                         <<"Credentials are required to create a TwilioClient">>)),
     AuthRest(RestExc(20003, <<"Authenticate">>,
                      <<"HTTP 401 error: Unable to fetch record: Authenticate">>)),
     AuthRaise(Exc("ConnectionError", {"OSError", "Exception"}, <<"connection refused">>))}

SendResps ==
    {SendOk("SM1", "queued"), SendOk("SM2", "sent"),
     SendRaise(RestExc(21211, <<"invalid To number">>,
                       <<"HTTP 400 error: Unable to create record: invalid To number">>)),
     SendRaise(RestExc(21608, <<"unverified number">>,
                       <<"HTTP 400 error: Unable to create record: unverified number">>)),
     SendRaise(Exc("ConnectionError", {"OSError", "Exception"}, <<"connection reset">>)),
     SendRaise(Exc("JSONDecodeError", {"ValueError", "Exception"},
                   <<"Expecting value: line 1 column 1 (char 0)">>))}

\* datetime.utcnow().isoformat()
Timestamps == {"2024-01-01T00:00:00", "2024-01-01T00:00:01"}

\* Validator inputs: up to two '+', a first character, a run of one fill
\* character, a tail.
Fill(c, n) == [i \in 1..n |-> c]
PlusPrefixes == {<<>>, <<"+">>, <<"+", "+">>}
FirstChars == {<<>>, <<"0">>, <<"1">>, <<"9">>, <<"U0663">>, <<"a">>, <<"NL">>}
FillChars == {"0", "7", "U0663"}
Tails == {<<>>, <<"NL">>, <<"NL", "NL">>, <<"a">>, <<" ">>}

ValidatorInputs ==
    {p \o f \o Fill(c, n) \o t :
        p \in PlusPrefixes, f \in FirstChars, c \in FillChars, n \in 0..MaxRun, t \in Tails}
    \cup {PlusFull, BareFull, NotANumber, PlusFullNL, PlusUnicode, TooShort}

-----------------------------------------------------------------------------
(* The command object and its two operations.                               *)

NoOut == [status |-> "none"]

\* No command object yet.  `given` keeps the from_phone_number argument the
\* object was constructed with.
NoInstance ==
    [status |-> "none", account_sid |-> <<>>, auth_token |-> <<>>,
     from_phone_number |-> <<>>, given |-> StrVal(<<>>)]

Init ==
    /\ inst = NoInstance
    /\ last = [op |-> "none", args |-> <<>>, env |-> AuthOk, out |-> NoOut]
    /\ nExecute = 0
    /\ nCreate = 0
    /\ vin = <<>>
    /\ vout = Raised(NoExc)
    /\ vout2 = Raised(NoExc)
    /\ vpc = "idle"

\* SendSMSCommand(account_sid, auth_token, from_phone_number): a fresh
\* object takes the slot, or the constructor raises and there is none.
Construct ==
    \E a \in AccountSids, t \in AuthTokens, f \in Senders, r \in AuthResps :
        LET out == __init__(a, t, f, r) IN
        /\ inst' = [status |-> out.status, account_sid |-> out.account_sid,
                    auth_token |-> out.auth_token,
                    from_phone_number |-> out.from_phone_number,
                    given |-> IF out.status = "constructed" THEN f ELSE StrVal(<<>>)]
        /\ last' = [op |-> "init",
                    args |-> [account_sid |-> a, auth_token |-> t,
                              from_phone_number |-> f],
                    env |-> r, out |-> out]
        /\ UNCHANGED <<nExecute, nCreate, vin, vout, vout2, vpc>>

\* command.execute(to_phone_number, message_body) on the constructed object.
Execute ==
    /\ inst.status = "constructed"
    /\ nExecute < MaxExecutes
    /\ \E to \in Recipients, b \in Bodies, r \in SendResps, now \in Timestamps :
         LET out == execute(inst, to, b, r, now) IN
         /\ last' = [op |-> "execute",
                     args |-> [to_phone_number |-> to, message_body |-> b],
                     env |-> r, out |-> out]
         /\ nExecute' = nExecute + 1
         /\ nCreate' = nCreate + Len(out.calls)
    /\ UNCHANGED <<inst, vin, vout, vout2, vpc>>

Next == Construct \/ Execute

Spec == Init /\ [][Next]_vars

-----------------------------------------------------------------------------
(* The validator alone, on generated strings.                               *)

InitValidator ==
    /\ inst = NoInstance
    /\ last = [op |-> "none", args |-> <<>>, env |-> AuthOk, out |-> NoOut]
    /\ nExecute = 0
    /\ nCreate = 0
    /\ vin \in ValidatorInputs
    /\ vout = Raised(NoExc)
    /\ vout2 = Raised(NoExc)
    /\ vpc = "start"

ValidateOnce ==
    /\ vpc = "start"
    /\ vout' = _validate_phone_number(vin)
    /\ vpc' = "once"
    /\ UNCHANGED <<inst, last, nExecute, nCreate, vin, vout2>>

ValidateAgain ==
    /\ vpc = "once"
    /\ vout.ok
    /\ vout2' = _validate_phone_number(vout.value)
    /\ vpc' = "twice"
    /\ UNCHANGED <<inst, last, nExecute, nCreate, vin, vout>>

NextValidator == ValidateOnce \/ ValidateAgain

SpecValidator == InitValidator /\ [][NextValidator]_vars

-----------------------------------------------------------------------------
(* Vocabulary of the properties.                                            *)

\* The language of ^\+?[1-9]\d{1,14}$ as Python's re reads it, stated by
\* decomposition: an optional '+', one of 1-9, k digits of class \d with
\* 1 <= k <= 14, and an optional final newline.
InPatternLanguage(s) ==
    \E plus \in {0, 1}, k \in 1..14, nl \in {0, 1} :
        /\ Len(s) = plus + 1 + k + nl
        /\ plus = 1 => s[1] = "+"
        /\ s[plus + 1] \in {"1", "2", "3", "4", "5", "6", "7", "8", "9"}
        /\ \A i \in 1..k : IsClassD(s[plus + 1 + i])
        /\ nl = 1 => s[Len(s)] = "NL"

\* `+<digits>` E.164 form: '+', then 2 to 15 digits and nothing else, the
\* first of them nonzero.
IsE164Form(s) ==
    /\ Len(s) \in 3..16
    /\ s[1] = "+"
    /\ s[2] \in {"1", "2", "3", "4", "5", "6", "7", "8", "9"}
    /\ \A i \in 3..Len(s) : IsClassD(s[i])

\* The string with a leading '+' guaranteed.
PlusForm(s) == IF Len(s) >= 1 /\ s[1] = "+" THEN s ELSE <<"+">> \o s

\* The f-string of line 77 names value v and the expected format.
NamesValueAndFormat(text, v) ==
    /\ Len(text) = Len(v) + 2
    /\ text[1] = "Invalid phone number format: "
    /\ SubSeq(text, 2, Len(v) + 1) = v
    /\ text[Len(text)] = ". Expected E.164 format (e.g., +1234567890)"

IsExecute == last.op = "execute"
IsInit == last.op = "init"

\* The arguments of the last execute, unwrapped.
ToArg == _extract_value(last.args.to_phone_number)
BodyArg == _extract_value(last.args.message_body)
ArgsUnwrap == ToArg.ok /\ BodyArg.ok

IsFailure(result) ==
    /\ DOMAIN result = {"response", "status", "mimetype"}
    /\ result.status \in {400, 500}
    /\ {"error_type", "error_message", "timestamp"} \subseteq DOMAIN result.response

IsSuccess(result) ==
    /\ DOMAIN result = {"response", "status", "mimetype"}
    /\ result.status = 200
    /\ DOMAIN result.response =
           {"message_sid", "to", "from", "status_code", "timestamp", "details"}

\* C1: every execute invocation returns a structured result and lets no
\* exception propagate; an unexpected failure (neither the validator's
\* rejection nor a provider rejection) yields a Failure tagged with the
\* exception's class name and carrying its message.
C1_AlwaysStructuredResult ==
    IsExecute =>
        /\ last.out.returned
        /\ IsSuccess(last.out.result) \/ IsFailure(last.out.result)
        /\ (/\ last.out.raised.type # "None"
            /\ last.out.origin # "validate"
            /\ "TwilioRestException" \notin last.out.raised.bases)
           => /\ IsFailure(last.out.result)
              /\ last.out.result.response.error_type = last.out.raised.type
              /\ last.out.result.response.error_message = last.out.raised.str

\* C2: an execute whose arguments unwrap to strings and whose recipient does
\* not match the pattern returns a Failure tagged ValueError (the validation
\* error) carrying the validator's message, and issues no messages.create.
C2_InvalidRecipientNoSend ==
    (IsExecute /\ ArgsUnwrap /\ ~InPatternLanguage(ToArg.value)) =>
        /\ last.out.returned
        /\ IsFailure(last.out.result)
        /\ last.out.result.response.error_type = "ValueError"
        /\ NamesValueAndFormat(last.out.result.response.error_message, ToArg.value)
        /\ last.out.calls = <<>>
        /\ nCreate < nExecute

C2_Witness ==
    /\ IsExecute
    /\ last.args.to_phone_number = StrVal(NotANumber)
    /\ last.args.message_body = StrVal(<<"hello">>)
    /\ last.out.result.status = 400
    /\ last.out.calls = <<>>

\* C3: every number handed to messages.create, sender and recipient, is in
\* `+<digits>` E.164 form.
C3_OnlyE164Handed ==
    IsExecute =>
        \A i \in 1..Len(last.out.calls) :
            /\ IsE164Form(last.out.calls[i].from)
            /\ IsE164Form(last.out.calls[i].to)

\* C4: when the account fetch of the constructor is rejected by the provider,
\* the constructor raises a ValueError (the configuration error) wrapping the
\* rejection, no object exists, execute cannot run and no send was issued.
C4_AuthRejectedNoCommand ==
    /\ (/\ IsInit
        /\ last.env.k = "rest"
        /\ \E i \in 1..Len(last.out.calls) : last.out.calls[i].op = "fetch") =>
        /\ last.out.status = "raised"
        /\ last.out.exc.type = "ValueError"
        /\ last.out.exc.str = <<"Invalid Twilio credentials: ">> \o last.env.exc.str
        /\ inst.status = "raised"
        /\ ~ENABLED Execute
        /\ \A i \in 1..Len(last.out.calls) : last.out.calls[i].op # "create"
    /\ IsExecute => inst.status = "constructed"

C4_Witness ==
    /\ IsInit
    /\ last.env.k = "rest"
    /\ last.out.status = "raised"
    /\ Len(last.out.calls) = 2
    /\ last.out.exc.str[1] = "Invalid Twilio credentials: "

\* C5: when messages.create raises a TwilioRestException with code c and
\* message m, execute returns a Failure of category TwilioRestException
\* carrying exactly c and m.
C5_ProviderRejectionMapped ==
    (/\ IsExecute
     /\ last.out.calls # <<>>
     /\ last.env.k = "raise"
     /\ "TwilioRestException" \in last.env.exc.bases) =>
        /\ last.out.returned
        /\ IsFailure(last.out.result)
        /\ last.out.result.response.error_type = "TwilioRestException"
        /\ "error_code" \in DOMAIN last.out.result.response
        /\ last.out.result.response.error_code = last.env.exc.code
        /\ last.out.result.response.error_message = last.env.exc.msg

C5_Witness ==
    /\ IsExecute
    /\ last.out.calls # <<>>
    /\ last.env.k = "raise"
    /\ last.env.exc.type = "TwilioRestException"
    /\ last.env.exc.code = 21211
    /\ last.out.result.response.error_code = 21211
    /\ last.out.result.response.error_message = <<"invalid To number">>

\* C6: the validator returns every string of the pattern's language with a
\* leading '+' guaranteed (unchanged if it has one, else prefixed with one),
\* and raises ValueError, returning nothing, for every other string.
C6_ValidatorContract ==
    vpc \in {"once", "twice"} =>
        IF InPatternLanguage(vin)
        THEN /\ vout.ok
             /\ vout.value = (IF vin[1] = "+" THEN vin ELSE <<"+">> \o vin)
             /\ vout.exc.type = "None"
        ELSE /\ ~vout.ok
             /\ vout.value = <<>>
             /\ vout.exc.type = "ValueError"
             /\ NamesValueAndFormat(vout.exc.str, vin)

C6_Witness ==
    /\ vpc = "once"
    /\ vin = BareFull
    /\ vout.ok
    /\ vout.value = PlusFull

\* C7: with a constructed command, arguments that unwrap, a recipient in the
\* pattern's language and a send the provider accepts, execute returns a
\* Success whose message id and status are the provider's and whose to/from
\* are the '+'-prefixed forms of the recipient given and of the sender given
\* at construction.
C7_SuccessEchoesProvider ==
    (/\ IsExecute
     /\ ArgsUnwrap
     /\ InPatternLanguage(ToArg.value)
     /\ last.env.k = "ok") =>
        /\ last.out.returned
        /\ IsSuccess(last.out.result)
        /\ last.out.result.response.message_sid = last.env.sid
        /\ last.out.result.response.status_code = last.env.status
        /\ last.out.result.response.to = PlusForm(ToArg.value)
        /\ last.out.result.response.from = PlusForm(_extract_value(inst.given).value)
        /\ last.out.calls =
               <<CreateCall(BodyArg.value, PlusForm(_extract_value(inst.given).value),
                            PlusForm(ToArg.value))>>

C7_Witness ==
    /\ IsExecute
    /\ last.args.to_phone_number = StrVal(BareFull)
    /\ inst.given = StrVal(BareFull)
    /\ last.env = SendOk("SM2", "sent")
    /\ last.out.result.status = 200
    /\ last.out.result.response.message_sid = "SM2"
    /\ last.out.result.response.to = PlusFull
    /\ last.out.result.response.from = PlusFull

\* C8: an execute invocation issues exactly one messages.create when its
\* arguments unwrap and the recipient is in the pattern's language, none
\* otherwise; a failed send is not re-issued and ends in one Failure result;
\* over n invocations at most n sends are issued.
C8_NoRetries ==
    /\ nCreate <= nExecute
    /\ IsExecute =>
        /\ Len(last.out.calls) =
               (IF ArgsUnwrap /\ InPatternLanguage(ToArg.value) THEN 1 ELSE 0)
        /\ (last.out.calls # <<>> /\ last.env.k # "ok") =>
               /\ last.out.returned
               /\ IsFailure(last.out.result)

C8_Witness ==
    /\ nExecute = MaxExecutes
    /\ nCreate = 1
    /\ IsExecute
    /\ Len(last.out.calls) = 1
    /\ last.env.k = "raise"
    /\ last.out.result.status = 500

\* C9: a sender that unwraps to a string outside the pattern's language makes
\* the constructor raise before any provider call (no Client, no fetch); with
\* the credentials unwrapped, what it raises is the ValueError naming the
\* value and the expected format.
C9_BadSenderFailsFirst ==
    (/\ IsInit
     /\ _extract_value(last.args.from_phone_number).ok
     /\ ~InPatternLanguage(_extract_value(last.args.from_phone_number).value)) =>
        /\ last.out.status = "raised"
        /\ inst.status = "raised"
        /\ last.out.calls = <<>>
        /\ (/\ _extract_value(last.args.account_sid).ok
            /\ _extract_value(last.args.auth_token).ok) =>
               /\ last.out.exc.type = "ValueError"
               /\ NamesValueAndFormat(last.out.exc.str,
                      _extract_value(last.args.from_phone_number).value)

C9_Witness ==
    /\ IsInit
    /\ last.args.from_phone_number = StrVal(NotANumber)
    /\ last.args.account_sid = StrVal(<<"AC1">>)
    /\ last.env = AuthOk
    /\ last.out.status = "raised"
    /\ last.out.exc.type = "ValueError"
    /\ last.out.calls = <<>>

\* C10: validating the validator's output succeeds and returns it unchanged;
\* an accepted number that already starts with '+' is returned unchanged.
C10_Idempotent ==
    /\ vpc = "twice" => (vout2.ok /\ vout2.value = vout.value)
    /\ (vpc \in {"once", "twice"} /\ vout.ok /\ vin[1] = "+") => vout.value = vin
    /\ (vpc = "once" /\ vout.ok) => ENABLED ValidateAgain

C10_Witness ==
    /\ vpc = "twice"
    /\ vin = BareFull
    /\ vout.value = PlusFull
    /\ vout2.value = PlusFull

=============================================================================
